---- MODULE Spec2Model ----
(***************************************************************************)
(* A model of MatchZoo's point generator (matchzoo/generators/             *)
(* point_generator.py) and of the preprocessor's persistence helper        *)
(* (matchzoo/engine/base_preprocessor.py).                                 *)
(*                                                                         *)
(* Label values are stored doubled ("halves"), so that the float label 1.5 *)
(* is the integer 3 and an integer label v is 2*v: the cast to int and the *)
(* cast to float are then different functions on the same representation.  *)
(* Row positions are 0-based, as in the code; sequences are 1-based.       *)
(***************************************************************************)
EXTENDS Integers, Sequences, FiniteSets, TLC

\* Largest relation table of the model (rows).
MaxRows == 2

VARIABLES
    left,        \* datapack.left: entity table indexed by id_left
    right,       \* datapack.right: entity table indexed by id_right
    relation,    \* datapack.relation: row index, id_left, id_right, label, label dtype
    stage,       \* datapack.stage
    gen,         \* the PointGenerator object's fields _datapack, _task
    ctor,        \* how the last call of PointGenerator(...) ended
    result,      \* what the last call of _get_batch_of_transformed_samples did
    castWrites,  \* executions of the assignment to relation['label'], counted 0, 1, 2 = more
    base,        \* the base generator's configuration and state
    order,       \* the base generator's row-index order of the epoch
    cursor,      \* batches served in the epoch
    served,      \* the index arrays served in the epoch, in order
    context,     \* the preprocessor's _context
    fs,          \* the directories save is called on
    saveResult,  \* how the last call of save ended
    firstContent \* per directory, the content preprocessor.dill had when it first existed

vars == <<left, right, relation, stage, gen, ctor, result, castWrites,
          base, order, cursor, served, context, fs, saveResult, firstContent>>

datapackVars == <<left, right, relation, stage>>
pointVars == <<gen, ctor, result, castWrites>>
baseVars == <<base, order, cursor, served>>
saveVars == <<context, fs, saveResult, firstContent>>

---------------------------------------------------------------------------
\* The data the generator works on.

LeftIds == {"q0", "q1"}
RightIds == {"d0", "d1"}

\* The left table of the class's example, with a second entity. The columns of
\* the two tables carry the suffixes _left and _right and share no name.
LeftFrame ==
    [columns |-> <<"text_left", "length_left">>,
     rows |-> [i \in LeftIds |->
                 IF i = "q0" THEN [text_left |-> <<1, 2>>, length_left |-> 2]
                             ELSE [text_left |-> <<4>>, length_left |-> 1]]]

\* The right table of the class's example, with a second entity.
RightFrame ==
    [columns |-> <<"text_right", "length_right">>,
     rows |-> [i \in RightIds |->
                 IF i = "d0" THEN [text_right |-> <<2, 3>>, length_right |-> 2]
                             ELSE [text_right |-> <<5, 6, 7>>, length_right |-> 3]]]

Range(s) == {s[k] : k \in DOMAIN s}

\* Row indexes of a table of n rows: the default 0..n-1 and its reorderings.
RowIndexes(n) == {ix \in [1..n -> 0..(n - 1)] : \A a, b \in 1..n : ix[a] = ix[b] => a = b}

\* A column of labels built from Python numbers is int64 unless one is fractional.
InferDtype(col) == IF \E k \in DOMAIN col : col[k] % 2 # 0 THEN "float" ELSE "int"

\* The rows relation tables are made of: the example's row ('q0', 'did0', 1) and
\* three more, so that every id pair and every label value occurs.
RowPool ==
    {[id_left |-> "q0", id_right |-> "d0", label |-> 2],
     [id_left |-> "q0", id_right |-> "d1", label |-> 0],
     [id_left |-> "q1", id_right |-> "d0", label |-> 3],
     [id_left |-> "q1", id_right |-> "d1", label |-> -2]}

\* pd.DataFrame(rows, columns=['id_left', 'id_right', 'label']) under a row index.
Frame(ix, rows) ==
    [index |-> ix,
     id_left |-> [k \in DOMAIN rows |-> rows[k].id_left],
     id_right |-> [k \in DOMAIN rows |-> rows[k].id_right],
     label |-> [k \in DOMAIN rows |-> rows[k].label],
     dtype |-> InferDtype([k \in DOMAIN rows |-> rows[k].label])]

Relations ==
    UNION {{Frame(ix, rows) : ix \in RowIndexes(n), rows \in [1..n -> RowPool]} :
             n \in 1..MaxRows}

Stages == {"train", "evaluate", "predict"}

\* Task descriptors: tasks.Ranking, tasks.Classification(num_classes) and a
\* third engine.BaseTask subclass.
NoTask == [kind |-> "unset", output_dtype |-> "none", num_classes |-> 0]
Tasks ==
    {[kind |-> "Ranking", output_dtype |-> "float", num_classes |-> 0],
     [kind |-> "Classification", output_dtype |-> "int", num_classes |-> 1],
     [kind |-> "Classification", output_dtype |-> "int", num_classes |-> 2],
     [kind |-> "Other", output_dtype |-> "int", num_classes |-> 0]}

\* Index arrays over a table of n rows: row positions, none twice.
IndexArrays(n) ==
    UNION {{index_array \in [1..m -> 0..(n - 1)] :
              \A a, b \in 1..m : index_array[a] = index_array[b] => a = b} :
             m \in 1..n}

NoResult ==
    [status |-> "none", index_array |-> <<>>, batch_x |-> <<>>,
     y_kind |-> "None", batch_y |-> <<>>, msg |-> {}]

---------------------------------------------------------------------------
\* pandas and numpy operations the batch assembly uses.

\* float -> int truncates toward zero.
Trunc(h) == IF h >= 0 THEN h - (h % 2) ELSE -((-h) - ((-h) % 2))

\* Series.astype(dtype) on the label column.
AsType(col, dtype) == IF dtype = "int" THEN [k \in DOMAIN col |-> Trunc(col[k])] ELSE col

\* relation['label'] = relation['label'].astype(type_)
CastLabel(rel, dtype) == [rel EXCEPT !.label = AsType(rel.label, dtype), !.dtype = dtype]

\* A slip in ILoc: the rows are taken by index label, as GetItem takes them.
MutILoc(rel, index_array, column) ==
    [k \in DOMAIN index_array |->
       rel[column][CHOOSE p \in DOMAIN rel.index : rel.index[p] = index_array[k]]]

\* relation.iloc[index_array, c]: by position.
ILoc(rel, index_array, column) == [k \in DOMAIN index_array |-> rel[column][index_array[k] + 1]]

\* relation['label'][index_array]: on an integer row index, by index label.
GetItem(rel, index_array) ==
    [k \in DOMAIN index_array |->
       rel.label[CHOOSE p \in DOMAIN rel.index : rel.index[p] = index_array[k]]]

\* frame.loc[ids, column].tolist()
Loc(frame, ids, column) == [k \in DOMAIN ids |-> frame.rows[ids[k]][column]]

\* dict.fromkeys(columns, [])
FromKeys(columns) == [c \in Range(columns) |-> <<>>]

\* d[key] = val
SetItem(d, key, val) == [c \in DOMAIN d \cup {key} |-> IF c = key THEN val ELSE d[c]]

\* for column in frame.columns: d[column] = frame.loc[ids, column].tolist()
RECURSIVE Gather(_, _, _, _)
Gather(d, frame, ids, n) ==
    IF n = 0 THEN d
    ELSE SetItem(Gather(d, frame, ids, n - 1), frame.columns[n],
                 Loc(frame, ids, frame.columns[n]))

\* batch_y[idx, label] = 1 on a row of num_classes zeros: a negative column
\* counts from the end, a column outside [-num_classes, num_classes) raises.
ColumnOK(label, num_classes) == -num_classes <= label /\ label < num_classes
Column(label, num_classes) == IF label < 0 THEN label + num_classes ELSE label
OneHot(label, num_classes) ==
    [c \in 1..num_classes |-> IF c - 1 = Column(label, num_classes) THEN 1 ELSE 0]

---------------------------------------------------------------------------
\* PointGenerator._get_batch_of_transformed_samples

\* A slip in LabelStage: labels are produced in every stage.
MutLabelStageAlways(s) == TRUE

\* A slip in LabelStage: the evaluate stage is taken for a labelled one.
MutLabelStageEvaluate(s) == s \in {"train", "evaluate"}

\* The stage test that guards label production.
LabelStage(s) == s = "train"

\* The feature dictionary.
Features(l, r, rel, index_array) ==
    LET columns == l.columns \o r.columns \o <<"id_left", "id_right">>
        d0 == FromKeys(columns)
        d1 == SetItem(d0, "id_left", ILoc(rel, index_array, "id_left"))
        d2 == Gather(d1, l, ILoc(rel, index_array, "id_left"), Len(l.columns))
        d3 == SetItem(d2, "id_right", ILoc(rel, index_array, "id_right"))
    IN  Gather(d3, r, ILoc(rel, index_array, "id_right"), Len(r.columns))

\* A slip in Labels: the final else is missing, and a third task kind falls
\* through with no label.
MutLabels(rel, task, index_array) ==
    IF task.kind = "Ranking"
    THEN [status |-> "ok", y_kind |-> "array", batch_y |-> GetItem(rel, index_array), msg |-> {}]
    ELSE [status |-> "ok", y_kind |-> "None", batch_y |-> <<>>, msg |-> {}]

\* The label branch, on the relation table after the cast.
Labels(rel, task, index_array) ==
    IF task.kind = "Ranking"
    THEN [status |-> "ok", y_kind |-> "array", batch_y |-> GetItem(rel, index_array), msg |-> {}]
    ELSE IF task.kind = "Classification"
    THEN LET labels == [k \in DOMAIN index_array |-> GetItem(rel, index_array)[k] \div 2]
         IN  IF \A k \in DOMAIN index_array : ColumnOK(labels[k], task.num_classes)
             THEN [status |-> "ok", y_kind |-> "matrix",
                   batch_y |-> [k \in DOMAIN index_array |-> OneHot(labels[k], task.num_classes)],
                   msg |-> {}]
             ELSE [status |-> "IndexError", y_kind |-> "None", batch_y |-> <<>>, msg |-> {}]
    ELSE [status |-> "ValueError", y_kind |-> "None", batch_y |-> <<>>,
          msg |-> {"is not a valid task type", "Ranking", "Classification"}]

\* The whole call: the outcome, from the relation table as the call leaves it.
Batch(l, r, rel, s, task, index_array) ==
    LET y == IF LabelStage(s) THEN Labels(rel, task, index_array)
             ELSE [status |-> "ok", y_kind |-> "None", batch_y |-> <<>>, msg |-> {}]
    IN  [status |-> y.status, index_array |-> index_array,
         batch_x |-> IF y.status = "ok" THEN Features(l, r, rel, index_array) ELSE <<>>,
         y_kind |-> y.y_kind, batch_y |-> y.batch_y, msg |-> y.msg]

\* The method reads self._datapack and self._task only, which __init__ binds
\* first.
_get_batch_of_transformed_samples(index_array) ==
    /\ gen._datapack = "datapack"
    /\ LET rel == IF LabelStage(stage) THEN CastLabel(relation, gen._task.output_dtype)
                  ELSE relation
       IN  /\ relation' = rel
           /\ result' = Batch(left, right, rel, stage, gen._task, index_array)
    /\ castWrites' = IF LabelStage(stage) THEN (IF castWrites = 0 THEN 1 ELSE 2)
                     ELSE castWrites
    /\ UNCHANGED <<left, right, stage, gen, ctor>>
    /\ UNCHANGED <<baseVars, saveVars>>

---------------------------------------------------------------------------
\* The base generator (engine.BaseGenerator), from its contract: constructed
\* idle, it draws the row-index order of an epoch (shuffled or not), serves the
\* epoch's batches as slices of that order, and starts over.

\* Largest batch size of the model.
MaxBatchSize == 3

\* Largest relation table of the batching model (rows).
MaxLength == 4

NoBase == [state |-> "unbuilt", batch_size |-> 0, num |-> 0, stage |-> "none", shuffle |-> FALSE]

\* BaseGenerator(batch_size, num, stage, shuffle)
BaseInit(batch_size, num, s, shuffle) ==
    [state |-> "idle", batch_size |-> batch_size, num |-> num, stage |-> s, shuffle |-> shuffle]

\* ceil(num / batch_size)
NumBatches(b) == (b.num + b.batch_size - 1) \div b.batch_size

\* The orders a reset can draw.
Orders(b) == IF b.shuffle THEN RowIndexes(b.num) ELSE {[k \in 1..b.num |-> k - 1]}

Min(a, b) == IF a < b THEN a ELSE b

\* batch(i): the i-th slice of the order; the last one may be shorter.
Slice(b, ord, i) == SubSeq(ord, i * b.batch_size + 1, Min((i + 1) * b.batch_size, Len(ord)))

Reset ==
    /\ \/ base.state = "idle"
       \/ base.state \in {"ready", "serving"} /\ cursor = NumBatches(base)
    /\ order' \in Orders(base)
    /\ cursor' = 0
    /\ served' = <<>>
    /\ base' = [base EXCEPT !.state = "ready"]
    /\ UNCHANGED <<datapackVars, pointVars, saveVars>>

Serve ==
    /\ base.state \in {"ready", "serving"}
    /\ cursor < NumBatches(base)
    /\ served' = Append(served, Slice(base, order, cursor))
    /\ cursor' = cursor + 1
    /\ base' = [base EXCEPT !.state = "serving"]
    /\ UNCHANGED order
    /\ UNCHANGED <<datapackVars, pointVars, saveVars>>

---------------------------------------------------------------------------
\* PointGenerator.__init__

\* The parameters __init__ declares after self.
InitParams == <<"datapack", "task", "batch_size", "shuffle">>

\* Names the body of __init__ can read: its parameters and the module's globals
\* (no builtin is called stage).
InitScope ==
    Range(InitParams) \cup {"self", "engine", "tasks", "DataPack", "utils", "np", "typing"}

\* The names the call of the base constructor reads.
SuperArgs == <<"batch_size", "datapack", "stage", "shuffle">>

\* A slip in TotalRows: the left table is counted, len(datapack.left).
MutTotalRows(rel) == Cardinality(DOMAIN left.rows)

\* len(datapack.relation)
TotalRows(rel) == Len(rel.index)

\* A call with nargs positional arguments after self: four fit the signature,
\* five are the call of the class's example, PointGenerator(input, task, 1,
\* 'train', False). The model follows one generator object.
Construct(task, batch_size, shuffle, nargs) ==
    /\ ctor = "none"
    /\ IF nargs > Len(InitParams)
       THEN /\ ctor' = "TypeError"
            /\ UNCHANGED <<gen, base>>
       ELSE /\ gen' = [_datapack |-> "datapack", _task |-> task]
            /\ IF Range(SuperArgs) \subseteq InitScope
               THEN /\ ctor' = "ok"
                    /\ base' = BaseInit(batch_size, TotalRows(relation), stage, shuffle)
               ELSE /\ ctor' = "NameError"
                    /\ UNCHANGED base
    /\ UNCHANGED <<datapackVars, result, castWrites, order, cursor, served, saveVars>>

\* The constructor as the generator's contract has it: the stage is the
\* DataPack's, and the base generator is configured.
ConstructPerContract(task, batch_size, shuffle) ==
    /\ ctor = "none"
    /\ gen' = [_datapack |-> "datapack", _task |-> task]
    /\ ctor' = "ok"
    /\ base' = BaseInit(batch_size, TotalRows(relation), stage, shuffle)
    /\ UNCHANGED <<datapackVars, result, castWrites, order, cursor, served, saveVars>>

---------------------------------------------------------------------------
\* BasePreprocessor.save

\* Directories save is called on; the last one's parent directory does not exist.
Dirs == {"model_a", "model_b", "missing/model"}
ParentExists(d) == d # "missing/model"

\* Values of _context: {} after __init__, and what a subclass's fit leaves.
Contexts == {"{}", "fit_1", "fit_2"}

NoFile == [exists |-> FALSE, data |-> ""]

\* dill.dump(self, open(data_file_path, mode='wb'))
Dump(ctx) == [exists |-> TRUE, data |-> ctx]

\* A slip in SaveOutcome: no test for an existing file, which is overwritten.
MutSaveOutcome(f, d, ctx) ==
    IF ~f[d].dir /\ ~ParentExists(d)
    THEN [status |-> "FileNotFoundError", fs |-> f]
    ELSE [status |-> "ok", fs |-> [f EXCEPT ![d] = [dir |-> TRUE, file |-> Dump(ctx)]]]

\* save(dirpath) on the file system f with the preprocessor's context ctx.
SaveOutcome(f, d, ctx) ==
    IF f[d].file.exists
    THEN [status |-> "FileExistsError", fs |-> f]
    ELSE IF ~f[d].dir /\ ~ParentExists(d)
    THEN [status |-> "FileNotFoundError", fs |-> f]
    ELSE [status |-> "ok", fs |-> [f EXCEPT ![d] = [dir |-> TRUE, file |-> Dump(ctx)]]]

save(d) ==
    LET out == SaveOutcome(fs, d, context)
    IN  /\ fs' = out.fs
        /\ saveResult' = [status |-> out.status, dir |-> d, found |-> fs[d].file.exists]
        /\ firstContent' = IF out.status = "ok" /\ firstContent[d] = ""
                            THEN [firstContent EXCEPT ![d] = context]
                            ELSE firstContent
        /\ UNCHANGED <<context, datapackVars, pointVars, baseVars>>

\* A subclass's fit, which leaves fitted parameters in _context.
fit(ctx) ==
    /\ ctx # "{}"
    /\ context' = ctx
    /\ UNCHANGED <<fs, saveResult, firstContent, datapackVars, pointVars, baseVars>>

---------------------------------------------------------------------------
\* Specifications.

InitPoint ==
    /\ gen = [_datapack |-> "unset", _task |-> NoTask]
    /\ ctor = "none"
    /\ result = NoResult
    /\ castWrites = 0

InitBase ==
    /\ base = NoBase
    /\ order = <<>>
    /\ cursor = 0
    /\ served = <<>>

\* A directory is absent, empty, or holds a preprocessor.dill of an earlier run.
InitSave ==
    /\ context = "{}"
    /\ fs \in [Dirs -> {[dir |-> FALSE, file |-> NoFile], [dir |-> TRUE, file |-> NoFile],
                        [dir |-> TRUE, file |-> Dump("earlier")]}]
    /\ \A d \in Dirs : ~ParentExists(d) => ~fs[d].dir
    /\ saveResult = [status |-> "none", dir |-> "", found |-> FALSE]
    /\ firstContent = [d \in Dirs |-> fs[d].file.data]

NoFileSystem == [d \in Dirs |-> [dir |-> FALSE, file |-> NoFile]]

InitNoSave ==
    /\ context = "{}"
    /\ fs = NoFileSystem
    /\ saveResult = [status |-> "none", dir |-> "", found |-> FALSE]
    /\ firstContent = [d \in Dirs |-> ""]

\* Batch assembly over every DataPack of the model.
Init ==
    /\ left = LeftFrame
    /\ right = RightFrame
    /\ relation \in Relations
    /\ stage \in Stages
    /\ InitPoint
    /\ InitBase
    /\ InitNoSave

Next ==
    \/ \E task \in Tasks, batch_size \in 1..MaxBatchSize, shuffle \in BOOLEAN, nargs \in {4, 5} :
          Construct(task, batch_size, shuffle, nargs)
    \/ \E index_array \in IndexArrays(Len(relation.index)) :
          _get_batch_of_transformed_samples(index_array)

Spec == Init /\ [][Next]_vars

\* Batching: DataPacks of every length up to MaxLength, rows of the example.
ExampleRow == [id_left |-> "q0", id_right |-> "d0", label |-> 2]

InitBatching ==
    /\ left = LeftFrame
    /\ right = RightFrame
    /\ relation \in {Frame([k \in 1..n |-> k - 1], [k \in 1..n |-> ExampleRow]) :
                       n \in 0..MaxLength}
    /\ stage \in Stages
    /\ InitPoint
    /\ InitBase
    /\ InitNoSave

NextBatching ==
    \/ \E batch_size \in 1..MaxBatchSize, shuffle \in BOOLEAN :
          ConstructPerContract(CHOOSE t \in Tasks : t.kind = "Ranking", batch_size, shuffle)
    \/ Reset
    \/ Serve

SpecBatching == InitBatching /\ [][NextBatching]_vars

\* Persistence.
InitPersist ==
    /\ left = LeftFrame
    /\ right = RightFrame
    /\ relation = Frame(<<0>>, <<ExampleRow>>)
    /\ stage = "train"
    /\ InitPoint
    /\ InitBase
    /\ InitSave

NextPersist ==
    \/ \E ctx \in Contexts : fit(ctx)
    \/ \E d \in Dirs : save(d)

SpecPersist == InitPersist /\ [][NextPersist]_vars

---------------------------------------------------------------------------
\* Properties.

Called == result.status # "none"

\* The label, after the cast, of the relation row at position index_array[k].
RowLabel(k) == relation.label[result.index_array[k] + 1]

\* The class of that row.
RowClass(k) == RowLabel(k) \div 2

FeatureKeys == Range(left.columns) \cup Range(right.columns) \cup {"id_left", "id_right"}

DefaultIndex == \A p \in DOMAIN relation.index : relation.index[p] = p - 1

RECURSIVE SeqSum(_)
SeqSum(q) == IF q = <<>> THEN 0 ELSE Head(q) + SeqSum(Tail(q))

\* C1: a returned feature dictionary has exactly the keys (left columns) union
\* (right columns) union {id_left, id_right}; every value has one entry per
\* batch row; entry k of id_left (id_right) is the id of the relation row at
\* position index_array[k], and entry k of a left (right) column is that
\* column's value in the left (right) row of that id.
C1_Features ==
    result.status = "ok" =>
        LET index_array == result.index_array
            x == result.batch_x
        IN  /\ DOMAIN x = FeatureKeys
            /\ \A c \in DOMAIN x : Len(x[c]) = Len(index_array)
            /\ \A k \in DOMAIN index_array :
                 /\ x["id_left"][k] = relation.id_left[index_array[k] + 1]
                 /\ x["id_right"][k] = relation.id_right[index_array[k] + 1]
                 /\ \A c \in Range(left.columns) :
                      x[c][k] = left.rows[relation.id_left[index_array[k] + 1]][c]
                 /\ \A c \in Range(right.columns) :
                      x[c][k] = right.rows[relation.id_right[index_array[k] + 1]][c]

\* C1's case: a batch of two rows of different entities, from a relation table
\* whose row index is not the default one.
C1_Witness ==
    /\ result.status = "ok"
    /\ Len(result.index_array) = 2
    /\ ~DefaultIndex
    /\ result.batch_x["id_left"][1] # result.batch_x["id_left"][2]
    /\ result.batch_x["id_right"][1] # result.batch_x["id_right"][2]

\* C2: in stage train with Classification(num_classes), a batch whose rows'
\* labels all lie in [0, num_classes) gets a label matrix of one row per batch
\* row and num_classes columns, of entries 0 and 1, each row summing to 1, with
\* the 1 of row k in the column of the label of the relation row at position
\* index_array[k].
C2_Claim ==
    (/\ Called
     /\ stage = "train"
     /\ gen._task.kind = "Classification"
     /\ \A k \in DOMAIN result.index_array :
          0 <= RowClass(k) /\ RowClass(k) < gen._task.num_classes)
    => /\ result.status = "ok"
       /\ result.y_kind = "matrix"
       /\ Len(result.batch_y) = Len(result.index_array)
       /\ \A k \in DOMAIN result.index_array :
            /\ Len(result.batch_y[k]) = gen._task.num_classes
            /\ \A c \in DOMAIN result.batch_y[k] : result.batch_y[k][c] \in {0, 1}
            /\ SeqSum(result.batch_y[k]) = 1
            /\ result.batch_y[k][RowClass(k) + 1] = 1

\* C3: in stage train with Ranking, the labels are one scalar per batch row,
\* and entry k is the cast label of the relation row at position
\* index_array[k], the row whose ids the features hold at k, whatever the
\* table's row index.
C3_Claim ==
    (Called /\ stage = "train" /\ gen._task.kind = "Ranking")
    => /\ result.status = "ok"
       /\ result.y_kind = "array"
       /\ Len(result.batch_y) = Len(result.index_array)
       /\ \A k \in DOMAIN result.index_array : result.batch_y[k] = RowLabel(k)

\* C4: in stage train with Classification(num_classes), a batch with a row
\* whose label is outside [0, num_classes), negative labels included, ends in
\* an indexing error, and no label matrix is returned.
C4_Claim ==
    (/\ Called
     /\ stage = "train"
     /\ gen._task.kind = "Classification"
     /\ \E k \in DOMAIN result.index_array :
          RowClass(k) < 0 \/ RowClass(k) >= gen._task.num_classes)
    => result.status = "IndexError" /\ result.y_kind = "None"

\* C5: when the stage is not train, every batch request returns the features
\* and no label, whatever the task kind; no error is raised.
C5_NoLabels ==
    (Called /\ stage # "train")
    => /\ result.status = "ok"
       /\ result.y_kind = "None"
       /\ result.batch_y = <<>>
       /\ DOMAIN result.batch_x = FeatureKeys

\* C5's case: a batch returned in stage evaluate to a task that is neither
\* Ranking nor Classification.
C5_Witness ==
    /\ result.status = "ok"
    /\ stage = "evaluate"
    /\ gen._task.kind = "Other"
    /\ result.y_kind = "None"

\* C6: in stage train, a batch request with a task that is neither Ranking nor
\* Classification fails with a ValueError that names Ranking and
\* Classification, and returns no batch.
C6_Unsupported ==
    (Called /\ stage = "train" /\ gen._task.kind \notin {"Ranking", "Classification"})
    => /\ result.status = "ValueError"
       /\ {"Ranking", "Classification"} \subseteq result.msg
       /\ result.y_kind = "None"
       /\ DOMAIN result.batch_x = {}

\* C6's case: the request has been made and has failed.
C6_Witness ==
    /\ stage = "train"
    /\ gen._task.kind = "Other"
    /\ result.status = "ValueError"

\* C7: a save on a directory whose preprocessor.dill exists fails with
\* FileExistsError, and the file keeps the content it had when it first
\* existed: that of the first successful save, whatever is saved later.
C7_NeverOverwrites ==
    /\ \A d \in Dirs : fs[d].file.exists => fs[d].file.data = firstContent[d]
    /\ (saveResult.status # "none" /\ saveResult.found)
         => saveResult.status = "FileExistsError"

\* C7's case: a save was refused on a file an earlier save had written, while
\* the preprocessor's context differed from the saved one.
C7_Witness ==
    /\ saveResult.status = "FileExistsError"
    /\ firstContent[saveResult.dir] \in Contexts
    /\ fs[saveResult.dir].file.data # context

\* C8: a call of the constructor succeeds and configures the base generator
\* with the relation table's row count and the stage.
C8_Claim ==
    ctor # "none"
    => /\ ctor = "ok"
       /\ base.state = "idle"
       /\ base.num = Len(relation.index)
       /\ base.stage = stage

====
